---- MODULE Spec2Model ----
(***************************************************************************)
(* A model of src/main/sloth/sloth.py: the Sloth object (one "Task" of the *)
(* specification), its compute()/verify()/wait() methods, the worker that  *)
(* _run() spawns, the lock around the publication of the results and the   *)
(* module-global progress bar.                                             *)
(*                                                                         *)
(* Threads are interleaved at the granularity of the reads and writes of   *)
(* the object's attributes: one step per read or write of a shared         *)
(* attribute, per lock operation and per call into the C library.          *)
(***************************************************************************)
EXTENDS Integers, Sequences, FiniteSets, TLC

(***************************************************************************)
(* Bounds of the model.                                                    *)
(***************************************************************************)
\* Sloth objects that may exist.
NumTasks == 2
\* Caller threads (threads of the program that call the methods).
NumCallers == 2
\* Method calls (compute, verify, wait) made in one run by all the callers
\* together; every caller thread beyond the first counts as one call.
MaxOps == 3

Tasks == 1..NumTasks
Callers == 1..NumCallers

(***************************************************************************)
(* Values.  None is Python's None for the bytes-valued attributes; a bytes *)
(* value produced by the C library is named by the run that produced it:   *)
(* <<"w", data, bits, iterations, nonce>> is the witness and               *)
(* <<"h", data, bits, iterations, nonce>> the 64-byte hash of the run of   *)
(* sloth over (data, bits, iterations) whose randomness was nonce.  data   *)
(* is 0 for None, 1 and 2 for two byte strings ("hello", "hellp").         *)
(***************************************************************************)
None == <<>>
NoData == 0
\* timeout=None of wait() and of Thread.join()
NoTimeout == -1

DataInputs == {NoData, 1, 2}
BitsInputs == {513, 1024}
IterInputs == {1}
\* wait(timeout) arguments the callers use
Timeouts == {NoTimeout, 0, 1}

\* A witness/hash pair computed beforehand (another Sloth object, data 1).
PriorWitness == <<"w", 1, 1024, 1, 0>>
PriorHash == <<"h", 1, 1024, 1, 0>>

\* The arguments of the constructor.
CtorArgs ==
  [data : DataInputs, bits : BitsInputs, iterations : IterInputs,
   final_hash : {None, PriorHash}, witness : {None, PriorWitness},
   blocking : BOOLEAN]

VARIABLES
  args,         \* args[k]: the constructor arguments of Sloth object k
  PROGRESS,     \* the module's PROGRESS flag
  progressbar,  \* the module-global progressbar: 0 (None) or a bar of sinks
  sinks,        \* the tqdm objects created so far
  self,         \* self[k]: the attributes of Sloth object k
  threads,      \* the executions of wrapped_task: Thread objects and inline runs
  callers,      \* the caller threads: position and locals
  ctask,        \* ctask[c]: the Sloth object caller c uses (0: caller absent)
  nops,         \* method calls made so far (plus the callers beyond the first)
  waitLog       \* history: <<why the join ended, value wait() returned>>

vars == <<args, PROGRESS, progressbar, sinks, self, threads, callers, ctask, nops, waitLog>>

(***************************************************************************)
(* The C library (not part of the Python source): lib.sloth and            *)
(* lib.sloth_verification, by their contract.                              *)
(***************************************************************************)
\* Bytes the library reports as used by a witness (at most bits/8).
WitnessLen(w) == IF w = None THEN 0 ELSE (w[3] \div 8) - (w[5] % 2)

\* lib.sloth(witness, witness_size, out, data, bits, iterations), run with
\* randomness nonce: the witness and the hash it writes.
sloth(d, b, i, nonce) ==
  [witness |-> <<"w", d, b, i, nonce>>, out |-> <<"h", d, b, i, nonce>>]

\* lib.sloth_verification(witness, len, final_hash, data, bits, iterations):
\* the values it may return.  1 for a pair of one run over the same data,
\* bits and iterations; 0 when anything was altered; a length beyond the
\* witness buffer is an over-read, which may return either.
sloth_verification(w, wl, h, d, b, i) ==
  IF /\ w # None /\ h # None
     /\ w[1] = "w" /\ h[1] = "h"
     /\ Tail(w) = Tail(h)
     /\ w[2] = d /\ w[3] = b /\ w[4] = i
  THEN IF wl = WitnessLen(w) THEN {1}
       ELSE IF wl < WitnessLen(w) THEN {0} ELSE {0, 1}
  ELSE {0}

(***************************************************************************)
(* Sloth.__init__                                                          *)
(***************************************************************************)
\* The three assertions of the constructor (bits and iterations are ints here).
CtorAsserts(a) == (a.bits % 512) = 0

Unbuilt ==
  [st |-> "new", data |-> NoData, bits |-> 0, iterations |-> 0,
   final_hash |-> None, witness |-> None, valid |-> "None",
   blocking |-> FALSE, thread |-> 0, lock |-> 0]

Built(a) ==
  [st |-> "ok", data |-> a.data, bits |-> a.bits, iterations |-> a.iterations,
   final_hash |-> a.final_hash, witness |-> a.witness, valid |-> "None",
   blocking |-> a.blocking, thread |-> 0, lock |-> 0]

Construct(k) ==
  /\ self[k].st = "new"
  /\ \E c \in Callers : ctask[c] = k
  /\ self' = [self EXCEPT ![k] =
                IF CtorAsserts(args[k]) THEN Built(args[k])
                ELSE [Unbuilt EXCEPT !.st = "failed"]]
  /\ UNCHANGED <<args, PROGRESS, progressbar, sinks, threads, callers, ctask, nops, waitLog>>

(***************************************************************************)
(* Thread objects and the caller threads.                                  *)
(***************************************************************************)
\* One execution of wrapped_task for compute_task or verify_task of object k:
\* a Thread (inline = FALSE) or the call made in place by a blocking object.
\* w, wl, h are the arguments verify_task has read; run is what lib.sloth
\* wrote, ver what lib.sloth_verification returned, exc the exception that
\* ended the execution, it the iterations the library has reported.
NewThread(k, kind, inline) ==
  [task |-> k, kind |-> kind, inline |-> inline, started |-> inline,
   pc |-> IF kind = "compute" THEN "c_call" ELSE "v_assert",
   w |-> None, wl |-> 0, h |-> None, run |-> None, ver |-> 0,
   exc |-> "none", it |-> 0, called |-> FALSE, timedOut |-> FALSE]

ThreadIds == 1..Len(threads)
\* The thread has ended: its target returned or raised.
TerminatedOnlyDone(t) == threads[t].pc = "done"
Terminated(t) == threads[t].pc \in {"done", "failed"}
Alive(t) == threads[t].started /\ ~Terminated(t)

IdleCaller ==
  [pc |-> "idle", call |-> "none", timeout |-> NoTimeout, j |-> 0, e |-> 0,
   res |-> "none", cause |-> "none"]

\* The call of caller c ends: with the value it returns or the exception it raises.
EndCall(c, res, cause) ==
  callers' = [callers EXCEPT ![c].pc = "idle", ![c].res = res, ![c].cause = cause,
                             ![c].timeout = NoTimeout]

\* _run, line 116: "if not self.blocking"
NeedsWaitInverted(k) == self[k].blocking
NeedsWait(k) == ~self[k].blocking

\* compute() and verify(): enter _run with the task; its first statement
\* decides whether to wait for the previous thread.
CallRun(c, kind) ==
  LET k == ctask[c] IN
  /\ k # 0 /\ self[k].st = "ok"
  /\ callers[c].pc = "idle"
  /\ nops < MaxOps
  /\ nops' = nops + 1
  /\ callers' = [callers EXCEPT ![c] =
       [IdleCaller EXCEPT !.pc = IF NeedsWait(k) THEN "wait_check" ELSE "bar",
                          !.call = kind]]
  /\ UNCHANGED <<args, PROGRESS, progressbar, sinks, self, threads, ctask, waitLog>>

compute(c) == CallRun(c, "compute")

verify(c) == CallRun(c, "verify")

\* wait(timeout), called by the program.
wait(c) ==
  LET k == ctask[c] IN
  /\ k # 0 /\ self[k].st = "ok"
  /\ callers[c].pc = "idle"
  /\ nops < MaxOps
  /\ nops' = nops + 1
  /\ \E timeout \in Timeouts :
       callers' = [callers EXCEPT ![c] =
         [IdleCaller EXCEPT !.pc = "wait_check", !.call = "wait", !.timeout = timeout]]
  /\ UNCHANGED <<args, PROGRESS, progressbar, sinks, self, threads, ctask, waitLog>>

\* wait() returns to whoever called it: to the program, with the value join()
\* returned (None, whatever ended the join), or to _run, which goes on.  t is
\* the thread that was joined (0: none).
WaitReturn(c, t, cause) ==
  IF callers[c].call = "wait"
  THEN /\ callers' = [callers EXCEPT ![c].pc = "idle", ![c].res = "None",
                        ![c].cause = cause, ![c].timeout = NoTimeout, ![c].j = t]
       /\ waitLog' = IF cause = "idle" THEN waitLog ELSE waitLog \cup {<<cause, "None">>}
  ELSE /\ callers' = [callers EXCEPT ![c].pc = "bar", ![c].cause = cause, ![c].j = t]
       /\ UNCHANGED waitLog

\* Thread.join(timeout) returns at once for a finished thread and for timeout 0.
JoinReturnsNow(t, timeout) == Terminated(t) \/ timeout = 0

\* The attributes of object k after a wait() on it joined its thread.
SelfAfterJoinCleared(k) == [self[k] EXCEPT !.thread = 0]
SelfAfterJoin(k) == self[k]

\* The thread a join on it timed out on.
ThreadAfterTimeoutCancelled(t) == [threads[t] EXCEPT !.timedOut = TRUE, !.pc = "failed"]
ThreadAfterTimeout(t) == [threads[t] EXCEPT !.timedOut = TRUE]

\* wait, line 133: "if self._thread is not None"
WaitCheck(c) ==
  LET k == ctask[c] IN
  /\ callers[c].pc = "wait_check"
  /\ IF self[k].thread = 0
     THEN WaitReturn(c, 0, "idle")
     ELSE /\ callers' = [callers EXCEPT ![c].pc = "wait_join"]
          /\ UNCHANGED waitLog
  /\ UNCHANGED <<args, PROGRESS, progressbar, sinks, self, threads, ctask, nops>>

\* wait, line 134: self._thread is read again and joined.  join() raises
\* RuntimeError for a thread that was not started.
WaitJoin(c) ==
  LET k == ctask[c]
      t == self[k].thread
      timeout == callers[c].timeout IN
  /\ callers[c].pc = "wait_join"
  /\ IF ~threads[t].started
     THEN /\ EndCall(c, "RuntimeError", "none")
          /\ UNCHANGED <<waitLog, threads, self>>
     ELSE IF Terminated(t)
     THEN /\ WaitReturn(c, t, "finished")
          /\ self' = [self EXCEPT ![k] = SelfAfterJoin(k)]
          /\ UNCHANGED threads
     ELSE IF JoinReturnsNow(t, timeout)
     THEN /\ WaitReturn(c, t, "timeout")
          /\ threads' = [threads EXCEPT ![t] = ThreadAfterTimeout(t)]
          /\ UNCHANGED self
     ELSE /\ callers' = [callers EXCEPT ![c].pc = "joining", ![c].j = t]
          /\ UNCHANGED <<waitLog, threads, self>>
  /\ UNCHANGED <<args, PROGRESS, progressbar, sinks, ctask, nops>>

\* The join ends because the thread has finished.
JoinFinished(c) ==
  LET k == ctask[c] IN
  /\ callers[c].pc = "joining"
  /\ Terminated(callers[c].j)
  /\ WaitReturn(c, callers[c].j, "finished")
  /\ self' = [self EXCEPT ![k] = SelfAfterJoin(k)]
  /\ UNCHANGED <<args, PROGRESS, progressbar, sinks, threads, ctask, nops>>

\* The join ends because the timeout has expired.
JoinTimedOut(c) ==
  LET t == callers[c].j IN
  /\ callers[c].pc = "joining"
  /\ callers[c].timeout # NoTimeout
  /\ ~Terminated(t)
  /\ WaitReturn(c, t, "timeout")
  /\ threads' = [threads EXCEPT ![t] = ThreadAfterTimeout(t)]
  /\ UNCHANGED <<args, PROGRESS, progressbar, sinks, self, ctask, nops>>

(***************************************************************************)
(* _run after the wait: the progress bar and the dispatch.                 *)
(***************************************************************************)
\* tqdm.tqdm(total=...): a new bar; closed counts the calls of close().
NewSink(k) == [total |-> self[k].iterations, n |-> 0, closed |-> 0, task |-> k]

\* _run, lines 118-119.
RunBar(c) ==
  LET k == ctask[c] IN
  /\ callers[c].pc = "bar"
  /\ IF PROGRESS
     THEN /\ sinks' = Append(sinks, NewSink(k))
          /\ progressbar' = Len(sinks) + 1
     ELSE UNCHANGED <<sinks, progressbar>>
  /\ callers' = [callers EXCEPT ![c].pc = "dispatch"]
  /\ UNCHANGED <<args, PROGRESS, self, threads, ctask, nops, waitLog>>

\* _run, lines 126-129: the task runs in place, or a Thread is made for it and
\* stored in self._thread.
RunDispatch(c) ==
  LET k == ctask[c]
      t == Len(threads) + 1 IN
  /\ callers[c].pc = "dispatch"
  /\ threads' = Append(threads, NewThread(k, callers[c].call, self[k].blocking))
  /\ IF self[k].blocking
     THEN /\ callers' = [callers EXCEPT ![c].pc = "inline", ![c].e = t]
          /\ UNCHANGED self
     ELSE /\ callers' = [callers EXCEPT ![c].pc = "start", ![c].e = t]
          /\ self' = [self EXCEPT ![k].thread = t]
  /\ UNCHANGED <<args, PROGRESS, progressbar, sinks, ctask, nops, waitLog>>

\* _run, line 130: self._thread is read again and started; start() raises
\* RuntimeError for a thread that was started already.  Then _run returns.
RunStart(c) ==
  LET k == ctask[c]
      t == self[k].thread IN
  /\ callers[c].pc = "start"
  /\ IF threads[t].started
     THEN /\ EndCall(c, "RuntimeError", callers[c].cause)
          /\ UNCHANGED threads
     ELSE /\ EndCall(c, "returned", callers[c].cause)
          /\ threads' = [threads EXCEPT ![t].started = TRUE]
  /\ UNCHANGED <<args, PROGRESS, progressbar, sinks, self, ctask, nops, waitLog>>

\* The call wrapped_task() of line 127 is over when the execution it made
\* has returned or raised.
InlineOverAtOnce(t) == TRUE
InlineOver(t) == Terminated(t)

\* _run, line 127, a blocking object: wrapped_task() has returned or raised,
\* and so does compute() or verify().
RunInlineEnd(c) ==
  LET t == callers[c].e IN
  /\ callers[c].pc = "inline"
  /\ InlineOver(t)
  /\ EndCall(c, IF threads[t].exc = "none" THEN "returned" ELSE threads[t].exc,
             callers[c].cause)
  /\ UNCHANGED <<args, PROGRESS, progressbar, sinks, self, threads, ctask, nops, waitLog>>

(***************************************************************************)
(* wrapped_task: compute_task or verify_task, then the close of the bar.   *)
(***************************************************************************)
Running(t, pc) == t \in ThreadIds /\ threads[t].started /\ threads[t].pc = pc

\* An exception leaves task() and wrapped_task(): the execution is over.
RaiseSwallowed(t, exc) ==
  threads' = [threads EXCEPT ![t].pc = "v_lock", ![t].exc = exc,
                             ![t].w = None, ![t].wl = 0, ![t].h = None]
Raise(t, exc) ==
  threads' = [threads EXCEPT ![t].pc = "failed", ![t].exc = exc,
                             ![t].w = None, ![t].wl = 0, ![t].h = None]

\* compute_task, lines 87-90: the buffers, then the call of lib.sloth with
\* self.data, self.bits, self.iterations.  None is no char*: TypeError.
ComputeCall(t) ==
  /\ Running(t, "c_call")
  /\ IF self[threads[t].task].data = NoData
     THEN Raise(t, "TypeError")
     ELSE threads' = [threads EXCEPT ![t].pc = "c_prim", ![t].called = TRUE]
  /\ UNCHANGED <<args, PROGRESS, progressbar, sinks, self, callers, ctask, nops, waitLog>>

\* update_progress(delta_iterations), called by the library during a call.
update_progress(t) ==
  /\ t \in ThreadIds /\ threads[t].started
  /\ threads[t].pc \in {"c_prim", "v_prim"}
  /\ \E delta \in 1..(self[threads[t].task].iterations - threads[t].it) :
       /\ threads' = [threads EXCEPT ![t].it = @ + delta]
       /\ IF PROGRESS /\ progressbar # 0
          THEN sinks' = [sinks EXCEPT ![progressbar].n = @ + delta]
          ELSE UNCHANGED sinks
  /\ UNCHANGED <<args, PROGRESS, progressbar, self, callers, ctask, nops, waitLog>>

\* lib.sloth returns (lines 90-91): the witness and the hash are in the buffers.
ComputeReturn(t) ==
  /\ Running(t, "c_prim")
  /\ LET k == threads[t].task IN
       threads' = [threads EXCEPT
         ![t].run = sloth(self[k].data, self[k].bits, self[k].iterations, t),
         ![t].it = 0, ![t].pc = "c_lock"]
  /\ UNCHANGED <<args, PROGRESS, progressbar, sinks, self, callers, ctask, nops, waitLog>>

\* verify_task, lines 100 and 102: the assertion on self.witness, and the
\* read of self.witness as the first argument (self.witness is never set
\* back to None, so the two reads are taken in one step).
VerifyAssert(t) ==
  /\ Running(t, "v_assert")
  /\ LET k == threads[t].task IN
       IF self[k].witness = None
       THEN Raise(t, "AssertionError")
       ELSE threads' = [threads EXCEPT ![t].w = self[k].witness, ![t].pc = "v_len"]
  /\ UNCHANGED <<args, PROGRESS, progressbar, sinks, self, callers, ctask, nops, waitLog>>

\* verify_task, line 103: len(self.witness), a second read of the attribute.
VerifyLen(t) ==
  /\ Running(t, "v_len")
  /\ threads' = [threads EXCEPT ![t].wl = WitnessLen(self[threads[t].task].witness),
                                ![t].pc = "v_call"]
  /\ UNCHANGED <<args, PROGRESS, progressbar, sinks, self, callers, ctask, nops, waitLog>>

\* verify_task, lines 104-107: self.final_hash and self.data are read and
\* lib.sloth_verification is called.  None is no char*: TypeError.
VerifyCall(t) ==
  /\ Running(t, "v_call")
  /\ LET k == threads[t].task IN
       IF self[k].final_hash = None \/ self[k].data = NoData
       THEN Raise(t, "TypeError")
       ELSE threads' = [threads EXCEPT ![t].h = self[k].final_hash,
                                       ![t].pc = "v_prim", ![t].called = TRUE]
  /\ UNCHANGED <<args, PROGRESS, progressbar, sinks, self, callers, ctask, nops, waitLog>>

\* lib.sloth_verification returns (line 101).
VerifyReturn(t) ==
  /\ Running(t, "v_prim")
  /\ LET k == threads[t].task
         th == threads[t] IN
       \E v \in sloth_verification(th.w, th.wl, th.h, self[k].data, self[k].bits,
                                   self[k].iterations) :
         threads' = [threads EXCEPT ![t].ver = v, ![t].it = 0, ![t].pc = "v_lock"]
  /\ UNCHANGED <<args, PROGRESS, progressbar, sinks, self, callers, ctask, nops, waitLog>>

\* Lock.acquire: only a free lock is taken.
CanAcquireAlways(k) == TRUE
CanAcquire(k) == self[k].lock = 0

\* "with self._lock:", lines 92 and 109.
Acquire(t) ==
  /\ t \in ThreadIds /\ threads[t].started
  /\ threads[t].pc \in {"c_lock", "v_lock"}
  /\ CanAcquire(threads[t].task)
  /\ self' = [self EXCEPT ![threads[t].task].lock = t]
  /\ threads' = [threads EXCEPT ![t].pc = IF @ = "c_lock" THEN "c_w" ELSE "v_pub"]
  /\ UNCHANGED <<args, PROGRESS, progressbar, sinks, callers, ctask, nops, waitLog>>

\* compute_task, line 93.
WriteWitness(t) ==
  /\ Running(t, "c_w")
  /\ self' = [self EXCEPT ![threads[t].task].witness = threads[t].run.witness]
  /\ threads' = [threads EXCEPT ![t].pc = "c_h"]
  /\ UNCHANGED <<args, PROGRESS, progressbar, sinks, callers, ctask, nops, waitLog>>

\* The attributes of object k after line 94 stored the hash of run and the
\* with block released the lock.
HashStoredValidReset(k, run) ==
  [self[k] EXCEPT !.final_hash = run.out, !.lock = 0, !.valid = "None"]
HashStored(k, run) == [self[k] EXCEPT !.final_hash = run.out, !.lock = 0]

\* compute_task, line 94, and the end of the with block.
WriteHash(t) ==
  /\ Running(t, "c_h")
  /\ self' = [self EXCEPT ![threads[t].task] = HashStored(threads[t].task, threads[t].run)]
  /\ threads' = [threads EXCEPT ![t].pc = "close"]
  /\ UNCHANGED <<args, PROGRESS, progressbar, sinks, callers, ctask, nops, waitLog>>

\* verify_task, line 110: "verification == 1".
ValidOfZero(verification) == IF verification = 0 THEN "True" ELSE "False"
ValidOf(verification) == IF verification = 1 THEN "True" ELSE "False"

\* The attributes of object k after line 110 stored the verdict and the with
\* block released the lock.
ValidStoredLockKept(k, verification) == [self[k] EXCEPT !.valid = ValidOf(verification)]
ValidStored(k, verification) ==
  [self[k] EXCEPT !.valid = ValidOf(verification), !.lock = 0]

\* verify_task, line 110, and the end of the with block.
WriteValid(t) ==
  /\ Running(t, "v_pub")
  /\ self' = [self EXCEPT ![threads[t].task] = ValidStored(threads[t].task, threads[t].ver)]
  /\ threads' = [threads EXCEPT ![t].pc = "close"]
  /\ UNCHANGED <<args, PROGRESS, progressbar, sinks, callers, ctask, nops, waitLog>>

\* progressbar.close() returns (tqdm closes a bar any number of times), and
\* wrapped_task returns after it.
AfterCloseRaisesOnClosed(t) ==
  IF PROGRESS /\ sinks[progressbar].closed > 0 THEN "failed" ELSE "done"
AfterClose(t) == "done"

\* wrapped_task, lines 123-124: the global progressbar is closed, and the
\* execution ends (its locals are gone).
Close(t) ==
  /\ Running(t, "close")
  /\ IF PROGRESS
     THEN sinks' = [sinks EXCEPT ![progressbar].closed = @ + 1]
     ELSE UNCHANGED sinks
  /\ threads' = [threads EXCEPT ![t].pc = AfterClose(t), ![t].w = None, ![t].wl = 0,
                                ![t].h = None, ![t].run = None]
  /\ UNCHANGED <<args, PROGRESS, progressbar, self, callers, ctask, nops, waitLog>>

(***************************************************************************)
(* The specifications.                                                     *)
(***************************************************************************)
\* A step of the execution t of wrapped_task.
ThreadStep(t) ==
  \/ ComputeCall(t) \/ update_progress(t) \/ ComputeReturn(t)
  \/ VerifyAssert(t) \/ VerifyLen(t) \/ VerifyCall(t) \/ VerifyReturn(t)
  \/ Acquire(t) \/ WriteWitness(t) \/ WriteHash(t) \/ WriteValid(t) \/ Close(t)

\* A step of caller c.
CallerStep(c) ==
  \/ compute(c) \/ verify(c) \/ wait(c)
  \/ WaitCheck(c) \/ WaitJoin(c) \/ JoinFinished(c) \/ JoinTimedOut(c)
  \/ RunBar(c) \/ RunDispatch(c) \/ RunStart(c) \/ RunInlineEnd(c)

Next ==
  \/ \E k \in Tasks : Construct(k)
  \/ \E c \in Callers : CallerStep(c)
  \/ \E t \in 1..MaxOps : ThreadStep(t)

\* Arguments of an object no caller uses.
DefaultArgs ==
  [data |-> NoData, bits |-> 1024, iterations |-> 1, final_hash |-> None,
   witness |-> None, blocking |-> FALSE]

\* The program: which caller uses which object, and how each object is built.
InitWith(assignments, argset) ==
  /\ ctask \in assignments
  /\ args \in [Tasks -> argset \cup {DefaultArgs}]
  /\ \A k \in Tasks :
       IF \E c \in Callers : ctask[c] = k
       THEN args[k] \in argset ELSE args[k] = DefaultArgs
  /\ PROGRESS \in BOOLEAN
  /\ progressbar = 0
  /\ sinks = <<>>
  /\ self = [k \in Tasks |-> Unbuilt]
  /\ threads = <<>>
  /\ callers = [c \in Callers |-> IdleCaller]
  /\ nops = Cardinality({c \in Callers : ctask[c] # 0}) - 1
  /\ waitLog = {}

\* One Sloth object used by caller 1 alone, or shared by callers 1 and 2.
OneCaller == {[c \in Callers |-> IF c = 1 THEN 1 ELSE 0]}
TwoCallers == {[c \in Callers |-> IF c \in {1, 2} THEN 1 ELSE 0]}

\* The objects the two-caller programs share.
SharedArgs ==
  {a \in CtorArgs : /\ a.data = 1 /\ a.bits = 1024
                    /\ (a.witness = None) = (a.final_hash = None)}

Init ==
  \/ InitWith(OneCaller, CtorArgs)
  \/ InitWith(TwoCallers, SharedArgs)

Spec == Init /\ [][Next]_vars

\* Every started execution of wrapped_task goes on running; the program
\* need not make another call.
Fairness == \A t \in 1..MaxOps : WF_vars(ThreadStep(t))

\* The programs of one caller, on an object that was given a whole pair or none.
InitOneCaller == InitWith(OneCaller, {a \in CtorArgs :
                                /\ a.bits = 1024
                                /\ (a.witness = None) = (a.final_hash = None)})

FairSpec == InitOneCaller /\ [][Next]_vars /\ Fairness

\* The constructor alone, over bits and iterations of every sign: zero,
\* negative, a multiple of 512 or not.  (isinstance(bits, int) and
\* isinstance(iterations, int) hold for all of them.)
CtorBits == {0 - 512, 0, 513, 1024}
CtorIters == {0 - 1, 0, 1}

CtorInputs ==
  [data : DataInputs, bits : CtorBits, iterations : CtorIters,
   final_hash : {None, PriorHash}, witness : {None, PriorWitness},
   blocking : BOOLEAN]

InitCtor == InitWith(OneCaller, CtorInputs)

NextCtor == \E k \in Tasks : Construct(k)

CtorSpec == InitCtor /\ [][NextCtor]_vars

\* The steps caller c takes inside a call it has made (the expiry of a
\* timeout included): the caller threads are scheduled too.
CallerProgress(c) ==
  \/ WaitCheck(c) \/ WaitJoin(c) \/ JoinFinished(c) \/ JoinTimedOut(c)
  \/ RunBar(c) \/ RunDispatch(c) \/ RunStart(c) \/ RunInlineEnd(c)

FairnessCalls == Fairness /\ \A c \in Callers : WF_vars(CallerProgress(c))

FairCallSpec == Init /\ [][Next]_vars /\ FairnessCalls

\* Two Sloth objects, each used by its own caller: callers 1 and 2 use
\* objects 1 and 2.
TwoTasks == {[c \in Callers |-> IF c \in {1, 2} THEN c ELSE 0]}

InitTwoTasks == InitWith(TwoTasks, SharedArgs)

SpecTwoTasks == InitTwoTasks /\ [][Next]_vars

(***************************************************************************)
(* The claims.                                                             *)
(***************************************************************************)
\* The callers that use object k.
Users(k) == {c \in Callers : ctask[c] = k}
\* Object k was built and runs its tasks on threads.
Background(k) == self[k].st = "ok" /\ ~self[k].blocking
\* The executions of wrapped_task for object k that are under way.
Executing(k) == {t \in ThreadIds : threads[t].task = k /\ Alive(t)}
\* bits is a positive multiple of 512 and iterations is positive.
ValidParams(k) ==
  self[k].bits > 0 /\ self[k].bits % 512 = 0 /\ self[k].iterations > 0

\* C1: calls of compute() and verify() made at the same time by several
\* threads on one background object are serialized: at most one execution of
\* its tasks is under way (in the library or publishing) in every state.
C1_Serialized ==
  \A k \in Tasks : Background(k) => Cardinality(Executing(k)) <= 1

\* C2: on a background object driven by one caller, the execution of call
\* k+1 is started only after the thread of call k has terminated, so that no
\* two executions (and no two calls into the library) overlap.
C2_OneCallerNoOverlap ==
  \A k \in Tasks :
    (Background(k) /\ Cardinality(Users(k)) = 1) =>
      \A t1, t2 \in ThreadIds :
        (t1 < t2 /\ threads[t1].task = k /\ threads[t2].task = k /\ threads[t2].started)
          => Terminated(t1)

\* A second call is in the library after the first call's thread has ended.
C2_Witness ==
  /\ Cardinality(Users(1)) = 1 /\ Background(1)
  /\ Len(threads) >= 2
  /\ threads[1].pc = "done"
  /\ threads[2].pc \in {"c_prim", "v_prim"}

\* C3: on a background object, a wait() that joined a thread whose call into
\* the library raised reports that failure to its caller.
C3_FailureSurfaced ==
  \A c \in Callers :
    ( /\ callers[c].pc = "idle" /\ callers[c].call = "wait"
      /\ callers[c].cause = "finished"
      /\ threads[callers[c].j].exc = "TypeError" )
    => callers[c].res # "None"

\* C4: a verify() that finds the witness unset raises to the caller of
\* verify() itself, on a blocking and on a background object, and the
\* library's verification is not called.
C4_PreconditionToCaller ==
  \A c \in Callers :
    ( /\ callers[c].pc = "idle" /\ callers[c].call = "verify"
      /\ callers[c].e # 0
      /\ threads[callers[c].e].exc = "AssertionError" )
    => /\ callers[c].res = "AssertionError"
       /\ ~threads[callers[c].e].called

\* The witness/hash pairs object k may show: the pair the constructor was
\* given and the pair of each call of lib.sloth made for it.
Pairs(k) ==
  {<<args[k].witness, args[k].final_hash>>} \cup
  {<<sloth(self[k].data, self[k].bits, self[k].iterations, t).witness,
     sloth(self[k].data, self[k].bits, self[k].iterations, t).out>> :
     t \in {u \in ThreadIds : threads[u].task = k /\ threads[u].kind = "compute"}}

\* C5: whenever the lock of an object is free, its (witness, final_hash) is
\* the pair given to the constructor or the pair of one compute, never the
\* witness of one compute with the hash of another.
C5_AtomicPair ==
  \A k \in Tasks :
    (self[k].st = "ok" /\ self[k].lock = 0) =>
      <<self[k].witness, self[k].final_hash>> \in Pairs(k)

\* Two computes of two callers have both published.
C5_Witness ==
  /\ Cardinality(Users(1)) = 2 /\ self[1].lock = 0
  /\ Len(threads) = 2
  /\ \A t \in {1, 2} : threads[t].kind = "compute" /\ threads[t].pc \in {"close", "done"}
  /\ self[1].witness # args[1].witness

\* Two calls were made, compute() and then verify(), and both have ended.
C6_Witness ==
  /\ Cardinality(Users(1)) = 1 /\ Background(1) /\ ValidParams(1)
  /\ nops = 2 /\ Len(threads) = 2
  /\ threads[1].kind = "compute" /\ threads[1].pc = "done"
  /\ threads[2].kind = "verify" /\ threads[2].pc = "done"
  /\ self[1].valid = "True"

\* C6: round trip.  On an object with valid bits and iterations used by one
\* caller, blocking or background, once a compute() has run to its end and a
\* verify() called after it has run to its end, valid is True.
C6_RoundTrip ==
  \A k \in Tasks :
    (self[k].st = "ok" /\ Cardinality(Users(k)) = 1 /\ ValidParams(k)) =>
      \A t1, t2 \in ThreadIds :
        ( /\ t1 < t2 /\ threads[t1].task = k /\ threads[t2].task = k
          /\ threads[t1].kind = "compute" /\ threads[t1].pc = "done"
          /\ threads[t2].kind = "verify" /\ threads[t2].pc = "done" )
        => self[k].valid = "True"

\* C7: after a verify() whose witness was set has run to its end (the last
\* one of an object used by one caller), valid is True if the library
\* returned 1 and False for every other outcome, an error raised by the call
\* of the library's verification included.
C7_ValidSetOnEveryOutcome ==
  \A k \in Tasks :
    Cardinality(Users(k)) = 1 =>
      \A t \in ThreadIds :
        ( /\ threads[t].task = k /\ threads[t].kind = "verify"
          /\ Terminated(t) /\ threads[t].exc # "AssertionError"
          /\ \A u \in ThreadIds : (u > t /\ threads[u].kind = "verify") => ~threads[u].started )
        => self[k].valid =
             IF threads[t].pc = "done" /\ threads[t].ver = 1 THEN "True" ELSE "False"

\* No operation of object k is in flight: none was started (or the object is
\* blocking), or its thread has finished.
IdleTask(k) == self[k].thread = 0 \/ Terminated(self[k].thread)

\* C8: a step of wait(timeout) on an object with no operation in flight
\* changes no attribute of the object, no thread and no progress bar, does
\* not block (it does not enter the join), and returns None without error:
\* at once when there is no thread, after the join of the finished thread
\* otherwise, whatever the timeout.
C8_WaitIdleNoOp ==
  [][\A c \in Callers :
       ( /\ callers[c].call = "wait"
         /\ callers[c].pc \in {"wait_check", "wait_join"}
         /\ IdleTask(ctask[c])
         /\ callers'[c] # callers[c] )
       => /\ self' = self /\ threads' = threads
          /\ sinks' = sinks /\ progressbar' = progressbar
          /\ callers'[c].pc =
               IF callers[c].pc = "wait_check" /\ self[ctask[c]].thread # 0
               THEN "wait_join" ELSE "idle"
          /\ callers'[c].pc = "idle" => callers'[c].res = "None"]_vars

\* A wait() on an object whose thread had finished has returned.
C8_Witness ==
  \E c \in Callers :
    /\ callers[c].call = "wait" /\ callers[c].pc = "idle"
    /\ callers[c].cause = "finished" /\ callers[c].res = "None"
    /\ IdleTask(ctask[c])

\* C9: what wait(timeout) returns when the operation finished differs from
\* what it returns when the timeout expired.
C9_Distinguishable ==
  \A x, y \in waitLog : (x[1] = "finished" /\ y[1] = "timeout") => x[2] # y[2]

\* The execution t has ended: it published its result, or an exception ended it.
Ended(t) ==
  \/ threads[t].pc = "done"
  \/ threads[t].pc = "failed" /\ threads[t].exc # "none"

\* C10: the expiry of the timeout of a wait() changes neither the object nor
\* its thread, and a thread whose waiter timed out goes on to publish its
\* result (or to end with the exception its task raised), whether or not
\* the caller waits again.
C10_TimeoutKeepsWorker ==
  /\ [][\A c \in Callers :
          ( /\ callers[c].pc \in {"wait_join", "joining"}
            /\ callers'[c].pc = "idle" /\ callers'[c].cause = "timeout" )
          => /\ self' = self
             /\ Len(threads') = Len(threads)
             /\ \A t \in ThreadIds :
                  [threads'[t] EXCEPT !.timedOut = FALSE] =
                  [threads[t] EXCEPT !.timedOut = FALSE]]_vars
  /\ \A t \in 1..MaxOps :
       (t \in ThreadIds /\ threads[t].timedOut) ~> (t \in ThreadIds /\ Ended(t))

\* A thread whose waiter timed out has published its result.
C10_Witness ==
  \E t \in ThreadIds : threads[t].timedOut /\ threads[t].pc = "done"

(***************************************************************************)
(* The constructor (under CtorSpec).                                       *)
(***************************************************************************)
\* bits is a positive multiple of 512 and iterations is positive.
GoodParams(a) == a.bits > 0 /\ a.bits % 512 = 0 /\ a.iterations > 0

\* C11: the constructor fails, and no attribute of the object exists, exactly
\* when bits is not a positive multiple of 512 or iterations is not
\* positive; it succeeds for a positive multiple of 512 with positive
\* iterations.
C11_InvalidParameter ==
  \A k \in Tasks :
    self[k].st # "new" =>
      /\ (self[k].st = "failed") = ~GoodParams(args[k])
      /\ self[k].st = "failed" => self[k] = [Unbuilt EXCEPT !.st = "failed"]

(***************************************************************************)
(* The progress bar.                                                       *)
(***************************************************************************)
\* With one caller the calls follow one another, so the t-th execution of
\* wrapped_task belongs to the call that opened the t-th bar.
OneUser == Cardinality({c \in Callers : ctask[c] # 0}) = 1

\* C12: with progress reporting on, the bar of every compute() or verify()
\* was opened with total = iterations before the call into the library, and
\* once the operation is over, in success or in failure, it has been closed
\* exactly once.
C12_SinkClosedOnce ==
  (PROGRESS /\ OneUser) =>
    \A t \in ThreadIds :
      /\ t <= Len(sinks)
      /\ sinks[t].total = self[threads[t].task].iterations
      /\ Terminated(t) => sinks[t].closed = 1

\* The program with the no-op sink (PROGRESS off): _run without lines 118-119,
\* update_progress of lines 26-28, wrapped_task without lines 123-124.  What
\* these do to the bars is left open, so that a step of the program with
\* progress on can be compared with them on everything but the bars.
RunBarNoOp(c) ==
  /\ callers[c].pc = "bar"
  /\ callers' = [callers EXCEPT ![c].pc = "dispatch"]
  /\ UNCHANGED <<args, PROGRESS, self, threads, ctask, nops, waitLog>>

update_progress_pass(t) ==
  /\ t \in ThreadIds /\ threads[t].started
  /\ threads[t].pc \in {"c_prim", "v_prim"}
  /\ \E delta \in 1..(self[threads[t].task].iterations - threads[t].it) :
       threads' = [threads EXCEPT ![t].it = @ + delta]
  /\ UNCHANGED <<args, PROGRESS, self, callers, ctask, nops, waitLog>>

CloseNoOp(t) ==
  /\ Running(t, "close")
  /\ threads' = [threads EXCEPT ![t].pc = "done", ![t].w = None, ![t].wl = 0,
                                ![t].h = None, ![t].run = None]
  /\ UNCHANGED <<args, PROGRESS, self, callers, ctask, nops, waitLog>>

\* A step of the program with the no-op sink.
NoOpNext ==
  \/ \E k \in Tasks : Construct(k)
  \/ \E c \in Callers :
       \/ compute(c) \/ verify(c) \/ wait(c)
       \/ WaitCheck(c) \/ WaitJoin(c) \/ JoinFinished(c) \/ JoinTimedOut(c)
       \/ RunBarNoOp(c) \/ RunDispatch(c) \/ RunStart(c) \/ RunInlineEnd(c)
  \/ \E t \in 1..MaxOps :
       \/ ComputeCall(t) \/ update_progress_pass(t) \/ ComputeReturn(t)
       \/ VerifyAssert(t) \/ VerifyLen(t) \/ VerifyCall(t) \/ VerifyReturn(t)
       \/ Acquire(t) \/ WriteWitness(t) \/ WriteHash(t) \/ WriteValid(t)
       \/ CloseNoOp(t)

\* C13: progress reporting never affects results.  Every step of the program,
\* with progress on or off, is a step of the program with the no-op sink on
\* everything but the bars: the attributes of the objects (witness,
\* final_hash, valid), the executions and what each call returns or raises.
\* So the same calls against the same outcomes of the library give the same
\* results with either sink.
C13_ProgressNoEffect == [][NoOpNext]_vars

\* With progress on, a bar has advanced and was closed twice (by the
\* executions of two callers), and both executions have published.
C13_Witness ==
  /\ PROGRESS /\ Len(threads) = 2
  /\ \A t \in {1, 2} : threads[t].pc = "done"
  /\ \E b \in 1..Len(sinks) : sinks[b].n > 0 /\ sinks[b].closed = 2

(***************************************************************************)
(* The effects of the operations.                                          *)
(***************************************************************************)
\* The execution t of a task of object k takes this step at one of the pcs.
Steps(t, k, kind, pcs) ==
  /\ threads[t].task = k /\ threads[t].kind = kind
  /\ threads[t].pc \in pcs /\ threads'[t].pc # threads[t].pc

\* C14: the frame of the operations.  No step changes data, bits or
\* iterations of a built object; witness and final_hash are changed only by
\* the publication of a compute, which leaves valid as it was (a valid
\* computed for an earlier witness survives a later compute); valid is
\* changed only by the publication of a verify, which leaves witness and
\* final_hash as they were.
C14_Frame ==
  [][\A k \in Tasks :
       self[k].st = "ok" =>
         /\ self'[k].data = self[k].data /\ self'[k].bits = self[k].bits
         /\ self'[k].iterations = self[k].iterations
         /\ (self'[k].witness # self[k].witness \/ self'[k].final_hash # self[k].final_hash)
              => \E t \in ThreadIds : Steps(t, k, "compute", {"c_w", "c_h"})
         /\ self'[k].valid # self[k].valid
              => \E t \in ThreadIds : Steps(t, k, "verify", {"v_pub"})
         /\ \A t \in ThreadIds :
              (threads[t].task = k /\ threads'[t] # threads[t]) =>
                IF threads[t].kind = "compute"
                THEN self'[k].valid = self[k].valid
                ELSE /\ self'[k].witness = self[k].witness
                     /\ self'[k].final_hash = self[k].final_hash]_vars

\* A verify() set valid, and a compute() after it has published a new pair:
\* valid is still what the verify() wrote.
C14_Witness ==
  /\ OneUser /\ Len(threads) = 2
  /\ threads[1].kind = "verify" /\ threads[1].pc = "done"
  /\ threads[2].kind = "compute" /\ threads[2].pc = "done"
  /\ self[1].valid = "True"
  /\ self[1].witness # args[1].witness

(***************************************************************************)
(* The lock.                                                               *)
(***************************************************************************)
\* The execution t is inside a call into the library.
InPrimitive(t) == threads[t].started /\ threads[t].pc \in {"c_prim", "v_prim"}

\* C15: the lock of an object is held only during the publication write.  An
\* execution that is inside lib.sloth or lib.sloth_verification does not
\* hold the lock of its object, and whoever holds a lock is an execution of
\* that object between its acquire and the end of its with block.
C15_LockOnlyForPublication ==
  /\ \A t \in ThreadIds : InPrimitive(t) => self[threads[t].task].lock # t
  /\ \A k \in Tasks :
       self[k].lock # 0 =>
         /\ self[k].lock \in ThreadIds
         /\ threads[self[k].lock].task = k
         /\ threads[self[k].lock].pc \in {"c_w", "c_h", "v_pub"}

\* One execution is inside the library while another holds the lock of the
\* same object and publishes.
C15_Witness ==
  \E t, u \in ThreadIds :
    /\ t # u /\ threads[t].task = threads[u].task
    /\ InPrimitive(t)
    /\ self[threads[u].task].lock = u

(***************************************************************************)
(* The dispatch of _run.                                                   *)
(***************************************************************************)
\* Caller c is inside compute() or verify().
InOperation(c) == callers[c].call \in {"compute", "verify"}

\* C16: dispatch by mode.  Background: a compute() or verify() that finds no
\* operation in flight does not enter a join, and once it has made the
\* thread, its next step starts it and returns, whatever the thread does.
\* Blocking: the object never has a thread handle, its executions are made
\* in place, and when compute() or verify() has returned normally the
\* execution it made has published its result and ended.
C16_DispatchByMode ==
  /\ [][\A c \in Callers :
          (InOperation(c) /\ callers'[c] # callers[c]) =>
            /\ (callers'[c].pc = "joining" /\ callers[c].pc # "joining")
                 => ~IdleTask(ctask[c])
            /\ callers[c].pc = "start" => callers'[c].pc = "idle"]_vars
  /\ [](\A k \in Tasks :
          (self[k].st = "ok" /\ self[k].blocking) =>
            /\ self[k].thread = 0
            /\ \A t \in ThreadIds : threads[t].task = k => threads[t].inline
            /\ \A c \in Callers :
                 ( /\ ctask[c] = k /\ InOperation(c) /\ callers[c].pc = "idle"
                   /\ callers[c].res = "returned" )
                 => threads[callers[c].e].pc = "done")

\* A background compute() or verify(), the first of its object, has returned
\* while the thread it started is inside the library.
C16_Witness ==
  \E c \in Callers :
    /\ InOperation(c) /\ callers[c].pc = "idle" /\ callers[c].res = "returned"
    /\ Background(ctask[c]) /\ callers[c].e = 1 /\ callers[c].cause = "idle"
    /\ InPrimitive(1)

(***************************************************************************)
(* What verify reads.                                                      *)
(***************************************************************************)
\* C17: whenever an execution of verify_task is inside
\* lib.sloth_verification, the witness and the final_hash it passed are one
\* pair: the pair given to the constructor or the pair of one call of
\* lib.sloth, for one caller and for several.
C17_VerifyReadsOnePair ==
  \A t \in ThreadIds :
    (threads[t].kind = "verify" /\ threads[t].started /\ threads[t].pc = "v_prim")
      => <<threads[t].w, threads[t].h>> \in Pairs(threads[t].task)

(***************************************************************************)
(* The progress bars of two objects (under SpecTwoTasks).                  *)
(***************************************************************************)
\* C18: progress is isolated per object.  A step of an execution of object k
\* (a progress report during its call into the library, or the close at its
\* end) changes only bars that were opened by operations of object k.
C18_ProgressIsolated ==
  [][\A t \in ThreadIds :
       threads'[t] # threads[t] =>
         \A b \in 1..Len(sinks) :
           sinks'[b] # sinks[b] => sinks[b].task = threads[t].task]_vars

(***************************************************************************)
(* Failed operations.                                                      *)
(***************************************************************************)
\* C19: a failed operation publishes nothing.  The step in which a call
\* into the library or the assertion of verify_task raises, and every later
\* step of that execution, leaves all attributes of all objects as they
\* were (witness, final_hash, valid, the lock); the failed execution is
\* over and does not hold the lock, so a further operation can run.
C19_FailedPublishesNothing ==
  /\ [][\A t \in ThreadIds :
          (threads'[t].exc # "none" /\ threads'[t] # threads[t]) => self' = self]_vars
  /\ [](\A t \in ThreadIds :
          threads[t].exc # "none" =>
            /\ Terminated(t)
            /\ self[threads[t].task].lock # t)

\* An operation failed, and the next operation of the same object has
\* published its result with the lock free again.
C19_Witness ==
  /\ OneUser /\ Len(threads) = 2
  /\ threads[1].pc = "failed" /\ threads[1].exc # "none"
  /\ threads[2].pc = "done" /\ threads[2].kind = "compute"
  /\ self[1].lock = 0 /\ self[1].witness # args[1].witness

(***************************************************************************)
(* Termination (under FairCallSpec).                                       *)
(***************************************************************************)
\* Caller c is inside a call on a background object that has no timeout:
\* compute(), verify() or wait().
UntimedCall(c) ==
  /\ callers[c].pc # "idle"
  /\ Background(ctask[c])
  /\ callers[c].timeout = NoTimeout

\* C20: termination in background mode, the calls into the library
\* terminating and all threads being scheduled.  Every compute(), verify()
\* and untimed wait() returns; inside compute() and verify() the caller can
\* always take its next step except while it joins the previous thread; and
\* every started execution ends, so nobody is blocked forever on the lock or
\* on a join.
C20_CallsTerminate ==
  /\ \A c \in Callers : UntimedCall(c) ~> callers[c].pc = "idle"
  /\ \A t \in 1..MaxOps : (t \in ThreadIds /\ Alive(t)) ~> (t \in ThreadIds /\ Terminated(t))
  /\ [](\A c \in Callers :
          (UntimedCall(c) /\ InOperation(c) /\ callers[c].pc # "joining")
            => ENABLED CallerProgress(c))

\* A compute() or verify() joined the previous thread, started its own and
\* returned, and its execution has published.
C20_Witness ==
  \E c \in Callers :
    /\ InOperation(c) /\ callers[c].pc = "idle" /\ Background(ctask[c])
    /\ callers[c].cause = "finished" /\ callers[c].j = 1
    /\ callers[c].e = 2 /\ threads[2].pc = "done"

====
